---- MODULE Spec2Model ----
(***************************************************************************)
(* A model of xchainer/array.cc: the Array value type, its elementwise     *)
(* Add/Mul (out-of-place, in-place and with a caller-supplied output),     *)
(* the computational graph they record (ArrayNode / OpNode) and the        *)
(* diagnostic graph dump.                                                  *)
(*                                                                         *)
(* Memory is modelled at the byte level: a buffer is a sequence of bytes,  *)
(* an element of dtype T occupies sizeof(T) consecutive bytes (little      *)
(* endian), and a kernel instantiated for T reads and writes its three     *)
(* pointers with stride sizeof(T), whatever the dtype of the Array that    *)
(* owns the buffer.  Array, buffer, node and op identities are indices     *)
(* into the sequences arrays, bufs, nodes and ops; indices grow in         *)
(* creation order.                                                         *)
(***************************************************************************)
EXTENDS Integers, Sequences, FiniteSets, TLC

\* ------------------------------------------------------------------ bounds

\* Spec: the value nodes (ArrayNode) the program creates from its start.
MaxNodes == 3
\* KernelSpec: the elementwise calls that complete on the Arrays it starts with.
MaxCalls == 1

\* ------------------------------------------------------------ Dtype, Shape

Dtype == {"kBool", "kInt8", "kInt16", "kInt32", "kInt64", "kUInt8", "kFloat32", "kFloat64"}

Device == {"cpu", "cuda"}

\* The build modelled defines XCHAINER_ENABLE_CUDA.
XCHAINER_ENABLE_CUDA == TRUE

\* GetElementSize(dtype): the byte width of one element.
GetElementSize(dtype) ==
    CASE dtype = "kBool" -> 1
      [] dtype = "kInt8" -> 1
      [] dtype = "kInt16" -> 2
      [] dtype = "kInt32" -> 4
      [] dtype = "kInt64" -> 8
      [] dtype = "kUInt8" -> 1
      [] dtype = "kFloat32" -> 4
      [] dtype = "kFloat64" -> 8

\* Shape::total_size(): the product of the extents, 1 for the empty shape.
RECURSIVE total_size(_)
total_size(shape) ==
    IF shape = <<>> THEN 1 ELSE Head(shape) * total_size(Tail(shape))

\* ------------------------------------------------------------ arithmetic of T

RECURSIVE Pow2(_)
Pow2(n) == IF n = 0 THEN 1 ELSE 2 * Pow2(n - 1)

\* Little-endian byte sequences of a non-negative integer and back.
RECURSIVE ToBytes(_, _)
ToBytes(v, w) == IF w = 0 THEN <<>> ELSE <<v % 256>> \o ToBytes(v \div 256, w - 1)

RECURSIVE FromBytes(_)
FromBytes(bs) == IF bs = <<>> THEN 0 ELSE Head(bs) + 256 * FromBytes(Tail(bs))

\* x + y on w-byte two's complement (or unsigned) integers: the promoted sum
\* converted back to T, i.e. modulo 2^(8w).
RECURSIVE AddCarry(_, _, _, _)
AddCarry(x, y, i, c) ==
    IF i > Len(x) THEN <<>>
    ELSE LET s == x[i] + y[i] + c
         IN  <<s % 256>> \o AddCarry(x, y, i + 1, s \div 256)

RECURSIVE ColumnSum(_, _, _, _)
ColumnSum(x, y, k, i) ==
    IF i > k THEN 0 ELSE x[i] * y[k + 1 - i] + ColumnSum(x, y, k, i + 1)

\* x * y on w-byte integers, modulo 2^(8w).
RECURSIVE MulColumns(_, _, _, _)
MulColumns(x, y, k, c) ==
    IF k > Len(x) THEN <<>>
    ELSE LET s == c + ColumnSum(x, y, k, 1)
         IN  <<s % 256>> \o MulColumns(x, y, k + 1, s \div 256)

\* Bitwise or / and of two bytes.
RECURSIVE BitOr(_, _)
BitOr(a, b) ==
    IF a = 0 THEN b
    ELSE IF b = 0 THEN a
    ELSE (IF a % 2 = 1 \/ b % 2 = 1 THEN 1 ELSE 0) + 2 * BitOr(a \div 2, b \div 2)

RECURSIVE BitAnd(_, _)
BitAnd(a, b) ==
    IF a = 0 \/ b = 0 THEN 0
    ELSE (IF a % 2 = 1 /\ b % 2 = 1 THEN 1 ELSE 0) + 2 * BitAnd(a \div 2, b \div 2)

\* Floor of log2 of n >= 1.
RECURSIVE Log2(_)
Log2(n) == IF n < 2 THEN 0 ELSE 1 + Log2(n \div 2)

\* IEEE-754 binary32 / binary64, restricted to the non-negative integers that
\* the format holds exactly and whose bit pattern the model's integers can
\* carry: mantissa width mw (23 or 20 high bits of 52), exponent bias.
\* The low four bytes of such a binary64 value are zero.
FloatLimit(dtype) == IF dtype = "kFloat32" THEN Pow2(24) ELSE Pow2(21)
FloatBias(dtype) == IF dtype = "kFloat32" THEN 127 ELSE 1023
FloatMant(dtype) == IF dtype = "kFloat32" THEN 23 ELSE 20
FloatHigh(dtype, bs) == IF dtype = "kFloat32" THEN bs ELSE SubSeq(bs, 5, 8)
FloatLowZero(dtype, bs) ==
    dtype = "kFloat64" => \A i \in 1..4 : bs[i] = 0

\* Whether the bytes hold a float the model carries.
FloatModelled(dtype, bs) ==
    /\ FloatLowZero(dtype, bs)
    /\ LET hi == FloatHigh(dtype, bs)
           mw == FloatMant(dtype)
       IN  /\ hi[4] < 128
           /\ LET bits == FromBytes(hi)
                  e == (bits \div Pow2(mw)) - FloatBias(dtype)
                  m == bits % Pow2(mw)
              IN  \/ bits = 0
                  \/ /\ e >= 0
                     /\ e <= mw
                     /\ m % Pow2(mw - e) = 0

FloatDecode(dtype, bs) ==
    LET mw == FloatMant(dtype)
        bits == FromBytes(FloatHigh(dtype, bs))
        e == (bits \div Pow2(mw)) - FloatBias(dtype)
        m == bits % Pow2(mw)
    IN  IF bits = 0 THEN 0 ELSE Pow2(e) + (m \div Pow2(mw - e))

FloatEncode(dtype, n) ==
    LET mw == FloatMant(dtype)
        e == Log2(n)
        bits == IF n = 0 THEN 0
                ELSE (FloatBias(dtype) + e) * Pow2(mw) + (n - Pow2(e)) * Pow2(mw - e)
        hi == ToBytes(bits, 4)
    IN  IF dtype = "kFloat32" THEN hi ELSE <<0, 0, 0, 0>> \o hi

\* The signed integer dtypes.
Signed == {"kInt8", "kInt16", "kInt32", "kInt64"}

\* An integer or bool element as the same number on twice the bytes: sign
\* extended for the signed dtypes, zero extended for bool and uint8.
Widen(dtype, x) ==
    LET fill == IF dtype \in Signed /\ x[Len(x)] >= 128 THEN 255 ELSE 0
    IN  x \o [k \in 1..Len(x) |-> fill]

\* The sum and the product of two elements as integers, on twice the bytes,
\* where neither can wrap.
ExactAdd(dtype, x, y) == AddCarry(Widen(dtype, x), Widen(dtype, y), 1, 0)
ExactMul(dtype, x, y) == MulColumns(Widen(dtype, x), Widen(dtype, y), 1, 0)

\* Whether an exact result is a value of the dtype.
Fits(dtype, e) == Widen(dtype, SubSeq(e, 1, Len(e) \div 2)) = e

\* int + int and int64 + int64 (and *) overflow: undefined behaviour.  The
\* narrower integers are promoted to int, where their results fit.
SignedOverflow(dtype, x, y, name) ==
    /\ dtype \in {"kInt32", "kInt64"}
    /\ ~Fits(dtype, IF name = "add" THEN ExactAdd(dtype, x, y) ELSE ExactMul(dtype, x, y))

\* How the build compiles arithmetic on bool: "setne" converts the int result
\* to bool by comparing with zero, "bitwise" assumes the operands are 0 or 1
\* and uses or / and.  The two agree on 0 and 1; a bool object holding any
\* other byte is undefined behaviour and the outcome depends on the build.
Codegen == {"setne", "bitwise"}

\* ldata[i] + rdata[i] stored to a T: the operands and the result as bytes.
ElemAdd(dtype, x, y, cg) ==
    CASE dtype = "kBool" ->
           IF cg = "setne" THEN <<IF x[1] + y[1] # 0 THEN 1 ELSE 0>>
           ELSE <<BitOr(x[1], y[1])>>
      [] dtype \in {"kFloat32", "kFloat64"} ->
           FloatEncode(dtype, FloatDecode(dtype, x) + FloatDecode(dtype, y))
      [] OTHER -> AddCarry(x, y, 1, 0)

\* A variant of ElemMul that adds.
ElemMulSum(dtype, x, y, cg) == ElemAdd(dtype, x, y, cg)

\* ldata[i] * rdata[i] stored to a T.
ElemMul(dtype, x, y, cg) ==
    CASE dtype = "kBool" ->
           IF cg = "setne" THEN <<IF x[1] * y[1] # 0 THEN 1 ELSE 0>>
           ELSE <<BitAnd(x[1], y[1])>>
      [] dtype \in {"kFloat32", "kFloat64"} ->
           FloatEncode(dtype, FloatDecode(dtype, x) * FloatDecode(dtype, y))
      [] OTHER -> MulColumns(x, y, 1, 0)

\* ------------------------------------------------------------------ state

VARIABLES
    arrays,   \* the live Array objects: shape_, is_contiguous_, dtype_, data_, offset_, node_
    bufs,     \* the heap: buffer id -> its bytes
    nodes,    \* ArrayNode id -> next_node_ (an op id, 0 when unset)
    ops,      \* OpNode id -> name and next_nodes
    call,     \* the last call made: what it was given, how it ended, the state before it
    stack,    \* DebugDumpComputationalGraph: the visits still to make, innermost first
    os,       \* DebugDumpComputationalGraph: the lines written to the stream
    halted    \* the process has died (a fault)

vars == <<arrays, bufs, nodes, ops, call, stack, os, halted>>

\* The part of the state the operations of Array work on.
State == [arrays |-> arrays, bufs |-> bufs, nodes |-> nodes, ops |-> ops]

EmptyState == [arrays |-> <<>>, bufs |-> <<>>, nodes |-> <<>>, ops |-> <<>>]

\* Array::total_bytes(): total_size() * element size.
total_bytes(a) == total_size(a.shape) * GetElementSize(a.dtype)

\* std::make_unique<uint8_t[]>(n): n value-initialised (zero) bytes.
make_unique(n) == [k \in 1..n |-> 0]

\* AllocateCudaManaged: a new managed buffer of size bytes holding the first
\* size bytes of the source; without CUDA support assert(0).
AllocateCudaManaged(src, size, enabled) ==
    IF enabled
    THEN [ok |-> TRUE, bytes |-> SubSeq(src, 1, size)]
    ELSE [ok |-> FALSE, bytes |-> <<>>]

\* Array::Array on state S: a new leaf node, and the buffer by device.
\* data is the caller's buffer (its bytes); on the CPU it becomes the Array's
\* buffer as it is, on CUDA its first size bytes are copied to a new one.
ArrayCtor(S, shape, dtype, data, offset, device, enabled) ==
    LET size == total_size(shape) * GetElementSize(dtype)
        alloc == IF device = "cuda"
                 THEN AllocateCudaManaged(data, size, enabled)
                 ELSE [ok |-> TRUE, bytes |-> data]
        a == [shape |-> shape, is_contiguous |-> TRUE, dtype |-> dtype,
              data |-> Len(S.bufs) + 1, offset |-> offset,
              node |-> Len(S.nodes) + 1]
    IN  [ok |-> alloc.ok,
         S |-> [arrays |-> Append(S.arrays, a),
                bufs |-> Append(S.bufs, alloc.bytes),
                nodes |-> Append(S.nodes, 0),
                ops |-> S.ops]]

\* ------------------------------------------------------------- kernels

\* static_cast<const T*>(data)[i]: the bytes of element i.
Load(mem, d, w, i) == SubSeq(mem[d], i * w + 1, (i + 1) * w)

\* static_cast<T*>(data)[i] = v.  Bytes that fall past the end of the buffer
\* are outside every modelled object and are dropped.
Store(mem, d, w, i, v) ==
    [mem EXCEPT ![d] = [k \in 1..Len(@) |->
        IF k > i * w /\ k <= (i + 1) * w THEN v[k - i * w] ELSE @[k]]]

\* A variant of the loop of Add<T> that stores the left element first and
\* adds the right one read after that store.
RECURSIVE AddLoopAccumulate(_, _, _, _, _, _, _, _)
AddLoopAccumulate(mem, T, ld, rd, od, i, n, cg) ==
    IF i >= n THEN mem
    ELSE LET w == GetElementSize(T)
             x == Load(mem, ld, w, i)
             stored == Store(mem, od, w, i, x)
         IN  AddLoopAccumulate(Store(stored, od, w, i,
                                     ElemAdd(T, x, Load(stored, rd, w, i), cg)),
                               T, ld, rd, od, i + 1, n, cg)

\* for (i = 0; i < total_size; i++) odata[i] = ldata[i] + rdata[i];
RECURSIVE AddLoop(_, _, _, _, _, _, _, _)
AddLoop(mem, T, ld, rd, od, i, n, cg) ==
    IF i >= n THEN mem
    ELSE LET w == GetElementSize(T)
         IN  AddLoop(Store(mem, od, w, i,
                           ElemAdd(T, Load(mem, ld, w, i), Load(mem, rd, w, i), cg)),
                     T, ld, rd, od, i + 1, n, cg)

\* A variant of the loop of Mul<T> that stops one element early.
RECURSIVE MulLoopShort(_, _, _, _, _, _, _, _)
MulLoopShort(mem, T, ld, rd, od, i, n, cg) ==
    IF i >= n - 1 THEN mem
    ELSE LET w == GetElementSize(T)
         IN  MulLoopShort(Store(mem, od, w, i,
                                ElemMul(T, Load(mem, ld, w, i), Load(mem, rd, w, i), cg)),
                          T, ld, rd, od, i + 1, n, cg)

\* for (i = 0; i < total_size; i++) odata[i] = ldata[i] * rdata[i];
RECURSIVE MulLoop(_, _, _, _, _, _, _, _)
MulLoop(mem, T, ld, rd, od, i, n, cg) ==
    IF i >= n THEN mem
    ELSE LET w == GetElementSize(T)
         IN  MulLoop(Store(mem, od, w, i,
                           ElemMul(T, Load(mem, ld, w, i), Load(mem, rd, w, i), cg)),
                     T, ld, rd, od, i + 1, n, cg)

\* Array::CreateNewNode on Array o: a fresh ArrayNode becomes its node_.
CreateNewNode(S, o) ==
    [S EXCEPT !.nodes = Append(@, 0),
              !.arrays[o].node = Len(S.nodes) + 1]

\* std::make_shared<OpNode>(name, next_nodes)
MakeOpNode(S, name, next_nodes) ==
    [S EXCEPT !.ops = Append(@, [name |-> name, next_nodes |-> next_nodes])]

\* ArrayNode::set_next_node
set_next_node(S, node, op) == [S EXCEPT !.nodes[node] = op]

\* A variant of RecordOp that reads the operands' nodes after the output got
\* its new node.
RecordOpLate(S, name, l, r, o) ==
    LET S1 == [S EXCEPT !.nodes = Append(@, 0), !.arrays[o].node = Len(S.nodes) + 1]
        out_node == S1.arrays[o].node
        op_node == Len(S.ops) + 1
    IN  [S1 EXCEPT !.ops = Append(@, [name |-> name,
                                      next_nodes |-> <<S1.arrays[l].node, S1.arrays[r].node>>]),
                   !.nodes[out_node] = op_node]

\* A variant of RecordOp that sets the producer on the node the output has
\* (out.node()) without making a new one.
RecordOpKeepNode(S, name, l, r, o) ==
    LET op_node == Len(S.ops) + 1
    IN  [S EXCEPT !.ops = Append(@, [name |-> name,
                                     next_nodes |-> <<S.arrays[l].node, S.arrays[r].node>>]),
                  !.nodes[S.arrays[o].node] = op_node]

\* A variant of RecordOp that lists the right operand's node first.
RecordOpSwapped(S, name, l, r, o) ==
    LET S1 == [S EXCEPT !.nodes = Append(@, 0), !.arrays[o].node = Len(S.nodes) + 1]
        out_node == S1.arrays[o].node
        op_node == Len(S.ops) + 1
    IN  [S1 EXCEPT !.ops = Append(@, [name |-> name,
                                      next_nodes |-> <<S.arrays[r].node, S.arrays[l].node>>]),
                   !.nodes[out_node] = op_node]

\* The graph part of Add<T> / Mul<T>: the operands' nodes are read first, the
\* output gets a new node, whose next node is a new OpNode over the operands.
RecordOp(S, name, l, r, o) ==
    LET lhs_node == S.arrays[l].node
        rhs_node == S.arrays[r].node
        S1 == CreateNewNode(S, o)
        out_node == S1.arrays[o].node
        S2 == MakeOpNode(S1, name, <<lhs_node, rhs_node>>)
        op_node == Len(S2.ops)
    IN  set_next_node(S2, out_node, op_node)

\* template <typename T> void Array::Add(const Array& rhs, Array& out) const
AddT(S, T, l, r, o, cg) ==
    LET n == total_size(S.arrays[l].shape)
        mem == AddLoop(S.bufs, T, S.arrays[l].data, S.arrays[r].data,
                       S.arrays[o].data, 0, n, cg)
    IN  RecordOp([S EXCEPT !.bufs = mem], "add", l, r, o)

\* template <typename T> void Array::Mul(const Array& rhs, Array& out) const
MulT(S, T, l, r, o, cg) ==
    LET n == total_size(S.arrays[l].shape)
        mem == MulLoop(S.bufs, T, S.arrays[l].data, S.arrays[r].data,
                       S.arrays[o].data, 0, n, cg)
    IN  RecordOp([S EXCEPT !.bufs = mem], "mul", l, r, o)

\* A variant of CheckOperands without the check of the shapes.
CheckDtype(S, l, r) ==
    IF S.arrays[l].dtype # S.arrays[r].dtype THEN "DtypeMismatch" ELSE "ok"

\* CheckEqual(dtype_, rhs.dtype()) then CheckEqual(shape_, rhs.shape()): the
\* error thrown, "ok" when neither throws.
CheckOperands(S, l, r) ==
    IF S.arrays[l].dtype # S.arrays[r].dtype THEN "DtypeMismatch"
    ELSE IF S.arrays[l].shape # S.arrays[r].shape THEN "ShapeMismatch"
    ELSE "ok"

\* void Array::Add(const Array& rhs, Array& out) const: the checks, then the
\* switch on dtype_ to Add<T>.
AddOut(S, l, r, o, cg) ==
    LET status == CheckOperands(S, l, r)
        dtype == S.arrays[l].dtype
    IN  IF status # "ok" THEN [status |-> status, S |-> S]
        ELSE [status |-> "ok",
              S |-> CASE dtype = "kBool" -> AddT(S, "kBool", l, r, o, cg)
                      [] dtype = "kInt8" -> AddT(S, "kInt8", l, r, o, cg)
                      [] dtype = "kInt16" -> AddT(S, "kInt16", l, r, o, cg)
                      [] dtype = "kInt32" -> AddT(S, "kInt32", l, r, o, cg)
                      [] dtype = "kInt64" -> AddT(S, "kInt64", l, r, o, cg)
                      [] dtype = "kUInt8" -> AddT(S, "kUInt8", l, r, o, cg)
                      [] dtype = "kFloat32" -> AddT(S, "kFloat32", l, r, o, cg)
                      [] dtype = "kFloat64" -> AddT(S, "kFloat64", l, r, o, cg)]

\* void Array::Mul(const Array& rhs, Array& out) const
MulOut(S, l, r, o, cg) ==
    LET status == CheckOperands(S, l, r)
        dtype == S.arrays[l].dtype
    IN  IF status # "ok" THEN [status |-> status, S |-> S]
        ELSE [status |-> "ok",
              S |-> CASE dtype = "kBool" -> MulT(S, "kBool", l, r, o, cg)
                      [] dtype = "kInt8" -> MulT(S, "kInt8", l, r, o, cg)
                      [] dtype = "kInt16" -> MulT(S, "kInt16", l, r, o, cg)
                      [] dtype = "kInt32" -> MulT(S, "kInt32", l, r, o, cg)
                      [] dtype = "kInt64" -> MulT(S, "kInt64", l, r, o, cg)
                      [] dtype = "kUInt8" -> MulT(S, "kUInt8", l, r, o, cg)
                      [] dtype = "kFloat32" -> MulT(S, "kFloat32", l, r, o, cg)
                      [] dtype = "kFloat64" -> MulT(S, "kFloat64", l, r, o, cg)]

\* ------------------------------------------------------------- the caller

\* Spec: the Arrays the caller constructs, two of a dtype that differ in
\* shape and one of another dtype.  int8 100, -3; int16 32767, 2.
Inputs ==
    {[shape |-> <<1, 2>>, dtype |-> "kInt8", data |-> <<100, 253>>],
     [shape |-> <<2, 1>>, dtype |-> "kInt8", data |-> <<100, 253>>],
     [shape |-> <<1, 2>>, dtype |-> "kInt16", data |-> <<255, 127, 2, 0>>]}

\* KernelSpec: the Arrays the caller has constructed, one or more of every
\* dtype.  bool true, false; int8 100, -3; int16 32767, 2; int32 INT_MAX, 3
\* and -5, 3; int64 7, -1; uint8 200, 100; float32 3.0, 1.0; float64 2.0, 5.0.
KernelInputs ==
    {[shape |-> <<1, 2>>, dtype |-> "kBool", data |-> <<1, 0>>],
     [shape |-> <<1, 2>>, dtype |-> "kInt8", data |-> <<100, 253>>],
     [shape |-> <<2, 1>>, dtype |-> "kInt8", data |-> <<100, 253, 9>>],
     [shape |-> <<1, 2>>, dtype |-> "kInt16", data |-> <<255, 127, 2, 0>>],
     [shape |-> <<1, 2>>, dtype |-> "kInt32", data |-> <<255, 255, 255, 127, 3, 0, 0, 0>>],
     [shape |-> <<1, 2>>, dtype |-> "kInt32", data |-> <<251, 255, 255, 255, 3, 0, 0, 0>>],
     [shape |-> <<1, 2>>, dtype |-> "kInt64",
      data |-> <<7, 0, 0, 0, 0, 0, 0, 0, 255, 255, 255, 255, 255, 255, 255, 255>>],
     [shape |-> <<1, 2>>, dtype |-> "kUInt8", data |-> <<200, 100>>],
     [shape |-> <<1, 2>>, dtype |-> "kFloat32", data |-> <<0, 0, 64, 64, 0, 0, 128, 63>>],
     [shape |-> <<1, 2>>, dtype |-> "kFloat64",
      data |-> <<0, 0, 0, 0, 0, 0, 0, 64, 0, 0, 0, 0, 0, 0, 20, 64>>]}

\* Element i of the operands as the kernel for lhs reads them.
Lhs(S, l, i) ==
    Load(S.bufs, S.arrays[l].data, GetElementSize(S.arrays[l].dtype), i)
Rhs(S, l, r, i) ==
    Load(S.bufs, S.arrays[r].data, GetElementSize(S.arrays[l].dtype), i)

\* The indices the kernel for lhs runs over.
Indices(S, l) == 0..(total_size(S.arrays[l].shape) - 1)

\* Whether the model carries every element the kernel reads and computes:
\* always for bool and the integers, for floats the exactly held integers.
KernelModelled(S, l, r, name) ==
    LET T == S.arrays[l].dtype
    IN  T \in {"kFloat32", "kFloat64"} =>
          \A i \in Indices(S, l) :
             LET x == Lhs(S, l, i)
                 y == Rhs(S, l, r, i)
             IN  /\ FloatModelled(T, x)
                 /\ FloatModelled(T, y)
                 /\ IF name = "add"
                    THEN FloatDecode(T, x) + FloatDecode(T, y) < FloatLimit(T)
                    ELSE FloatDecode(T, x) * FloatDecode(T, y) < FloatLimit(T)

\* Whether the kernel for lhs writes past the end of out's buffer.
Overflows(S, l, o) == total_bytes(S.arrays[l]) > Len(S.bufs[S.arrays[o].data])

\* The undefined behaviour a call that passes the checks runs into: a write
\* past the end of out's buffer ("bounds"), a signed overflow ("signed"), a
\* bool read from a byte other than 0 and 1 ("bool").
Undefined(S, l, r, o, name) ==
    LET T == S.arrays[l].dtype
    IN  {u \in {"bounds", "signed", "bool"} :
           /\ CheckOperands(S, l, r) = "ok"
           /\ \/ u = "bounds" /\ Overflows(S, l, o)
              \/ /\ u = "signed"
                 /\ \E i \in Indices(S, l) :
                       SignedOverflow(T, Lhs(S, l, i), Rhs(S, l, r, i), name)
              \/ /\ u = "bool"
                 /\ T = "kBool"
                 /\ \E i \in Indices(S, l) :
                       Lhs(S, l, i)[1] > 1 \/ Rhs(S, l, r, i)[1] > 1}

\* The builds whose kernels can differ on these operands: any two agree
\* unless a bool element read holds a byte other than 0 and 1.
Builds(S, l, r, o, name) ==
    IF "bool" \in Undefined(S, l, r, o, name) THEN Codegen ELSE {"setne"}

\* The ways a call can end: it returns or throws (FALSE), or the process dies
\* (TRUE) where a write past the buffer or a trapped overflow can kill it.
Faults(S, l, r, o, name) ==
    IF Undefined(S, l, r, o, name) \cap {"bounds", "signed"} # {}
    THEN BOOLEAN
    ELSE {FALSE}

NoCall ==
    [op |-> "none", status |-> "ok", lhs |-> 0, rhs |-> 0, out |-> 0, ret |-> 0,
     allocs |-> 0, ctors |-> 0, ub |-> {}, pre |-> EmptyState]

\* The caller is between two calls.
Idle == ~halted /\ stack = <<>> /\ call = NoCall

\* The state after a call: S when it returned, the state before it when it
\* threw or the process died.
Becomes(S) ==
    /\ arrays' = S.arrays
    /\ bufs' = S.bufs
    /\ nodes' = S.nodes
    /\ ops' = S.ops

\* Array(shape, dtype, data, offset) with the current device.
Construct(shape, dtype, data, device) ==
    /\ Idle
    /\ LET r == ArrayCtor(State, shape, dtype, data, 0, device, XCHAINER_ENABLE_CUDA)
       IN  /\ Becomes(IF r.ok THEN r.S ELSE State)
           /\ halted' = ~r.ok
           /\ call' = [op |-> "Array",
                       status |-> IF r.ok THEN "ok" ELSE "fault",
                       lhs |-> 0, rhs |-> 0, out |-> 0,
                       ret |-> IF r.ok THEN Len(arrays) + 1 ELSE 0,
                       allocs |-> IF r.ok /\ device = "cuda" THEN 1 ELSE 0,
                       ctors |-> 1, ub |-> {}, pre |-> State]
    /\ UNCHANGED <<stack, os>>

\* The stack unwinding of a call that throws: the k Arrays it constructed
\* as locals, the last made, go with their buffers and nodes.
Unwind(S, k) ==
    [arrays |-> SubSeq(S.arrays, 1, Len(S.arrays) - k),
     bufs |-> SubSeq(S.bufs, 1, Len(S.bufs) - k),
     nodes |-> SubSeq(S.nodes, 1, Len(S.nodes) - k),
     ops |-> S.ops]

\* How a call of the two-argument form ends.  S is the state it ran on and
\* res what it gave there: the error thrown and the state it threw in, or the
\* state it completed in.  A process that dies leaves nothing to observe, and
\* the state stays the one before the call.
Ends(op, name, S, res, l, r, o, ret, allocs, ctors, fault) ==
    LET done == res.status = "ok"
    IN  /\ Becomes(IF fault THEN State
                   ELSE IF done THEN res.S
                   ELSE Unwind(res.S, ctors))
        /\ halted' = fault
        /\ call' = [op |-> op,
                    status |-> IF fault THEN "fault" ELSE res.status,
                    lhs |-> l, rhs |-> r, out |-> o,
                    ret |-> IF done /\ ~fault THEN ret ELSE 0,
                    allocs |-> allocs, ctors |-> ctors,
                    ub |-> Undefined(S, l, r, o, name), pre |-> State]
        /\ UNCHANGED <<stack, os>>

\* The calls the model follows: those that throw, and those whose kernel
\* works on elements the model carries.
Carried(S, l, r, name) ==
    CheckOperands(S, l, r) = "ok" => KernelModelled(S, l, r, name)

\* Array& Array::IAdd(const Array& rhs)
IAdd(l, r) ==
    /\ Idle
    /\ Carried(State, l, r, "add")
    /\ \E cg \in Builds(State, l, r, l, "add"), fault \in Faults(State, l, r, l, "add") :
          Ends("IAdd", "add", State, AddOut(State, l, r, l, cg), l, r, l, l, 0, 0, fault)

\* Array& Array::IMul(const Array& rhs)
IMul(l, r) ==
    /\ Idle
    /\ Carried(State, l, r, "mul")
    /\ \E cg \in Builds(State, l, r, l, "mul"), fault \in Faults(State, l, r, l, "mul") :
          Ends("IMul", "mul", State, MulOut(State, l, r, l, cg), l, r, l, l, 0, 0, fault)

\* The output Array of the out-of-place forms:
\* Array out = {shape_, dtype_, std::make_unique<uint8_t[]>(total_bytes())};
NewOut(S, l, device) ==
    ArrayCtor(S, S.arrays[l].shape, S.arrays[l].dtype,
              make_unique(total_bytes(S.arrays[l])), 0, device, XCHAINER_ENABLE_CUDA).S

\* Buffers allocated by NewOut: the make_unique one, and the managed one on CUDA.
NewOutAllocs(device) == IF device = "cuda" THEN 2 ELSE 1

\* Array Array::Add(const Array& rhs) const
Add(l, r, device) ==
    /\ Idle
    /\ Carried(State, l, r, "add")
    /\ LET S == NewOut(State, l, device)
           out == Len(S.arrays)
       IN  \E cg \in Builds(S, l, r, out, "add"), fault \in Faults(S, l, r, out, "add") :
              Ends("Add", "add", S, AddOut(S, l, r, out, cg), l, r, out, out,
                   NewOutAllocs(device), 1, fault)

\* Array Array::Mul(const Array& rhs) const
Mul(l, r, device) ==
    /\ Idle
    /\ Carried(State, l, r, "mul")
    /\ LET S == NewOut(State, l, device)
           out == Len(S.arrays)
       IN  \E cg \in Builds(S, l, r, out, "mul"), fault \in Faults(S, l, r, out, "mul") :
              Ends("Mul", "mul", S, MulOut(S, l, r, out, cg), l, r, out, out,
                   NewOutAllocs(device), 1, fault)

\* lhs.Add(rhs, out) with an output Array the caller supplies.
AddTo(l, r, o) ==
    /\ Idle
    /\ Carried(State, l, r, "add")
    /\ \E cg \in Builds(State, l, r, o, "add"), fault \in Faults(State, l, r, o, "add") :
          Ends("AddTo", "add", State, AddOut(State, l, r, o, cg), l, r, o, 0, 0, 0, fault)

\* lhs.Mul(rhs, out) with an output Array the caller supplies.
MulTo(l, r, o) ==
    /\ Idle
    /\ Carried(State, l, r, "mul")
    /\ \E cg \in Builds(State, l, r, o, "mul"), fault \in Faults(State, l, r, o, "mul") :
          Ends("MulTo", "mul", State, MulOut(State, l, r, o, cg), l, r, o, 0, 0, 0, fault)

\* DebugDumpComputationalGraph(os, array, indent) with indent 0: the call on
\* the Array's node is the first visit to make.
DumpStart(a) ==
    /\ Idle
    /\ stack' = <<[node |-> arrays[a].node, indent |-> 0]>>
    /\ os' = <<>>
    /\ call' = [op |-> "Dump", status |-> "ok", lhs |-> a, rhs |-> 0, out |-> 0,
                ret |-> 0, allocs |-> 0, ctors |-> 0, ub |-> {}, pre |-> State]
    /\ UNCHANGED <<arrays, bufs, nodes, ops, halted>>

\* A variant of Children that recurses on the node itself for each operand.
ChildrenSelf(S, node, indent) ==
    LET op == S.nodes[node]
    IN  IF op = 0 THEN <<>>
        ELSE [k \in 1..Len(S.ops[op].next_nodes) |->
                 [node |-> node, indent |-> indent + 2]]

\* The visits DebugDumpComputationalGraph(os, array_node, indent) makes from
\* its loop over op->next_nodes(), first operand first.
Children(S, node, indent) ==
    LET op == S.nodes[node]
    IN  IF op = 0 THEN <<>>
        ELSE [k \in 1..Len(S.ops[op].next_nodes) |->
                 [node |-> S.ops[op].next_nodes[k], indent |-> indent + 2]]

\* The lines one visit writes: the node at indent, its op at indent + 1.
Lines(S, node, indent) ==
    LET op == S.nodes[node]
    IN  <<[indent |-> indent * 2, text |-> "ArrayNode", id |-> node]>>
        \o (IF op = 0 THEN <<>>
            ELSE <<[indent |-> (indent + 1) * 2, text |-> "Op", id |-> S.ops[op].name]>>)

\* One call of DebugDumpComputationalGraph(os, array_node, indent).
DumpStep ==
    /\ ~halted
    /\ stack # <<>>
    /\ LET top == Head(stack)
       IN  /\ os' = os \o Lines(State, top.node, top.indent)
           /\ stack' = Children(State, top.node, top.indent) \o Tail(stack)
    /\ UNCHANGED <<arrays, bufs, nodes, ops, call, halted>>

\* The call has returned or thrown and its caller goes on to the next one.
Resume ==
    /\ ~halted
    /\ stack = <<>>
    /\ call # NoCall
    /\ call' = NoCall
    /\ os' = <<>>
    /\ UNCHANGED <<arrays, bufs, nodes, ops, stack, halted>>

\* ------------------------------------------------------- specifications

Live == 1..Len(arrays)

\* What bounds the runs.  Spec follows a call while fewer than MaxNodes nodes
\* exist and the k nodes it creates when it passes the checks fit; KernelSpec
\* follows a call while fewer than MaxCalls ops are recorded.
NodesBound(l, r, k) ==
    /\ Len(nodes) < MaxNodes
    /\ CheckOperands(State, l, r) = "ok" => Len(nodes) + k <= MaxNodes
CallsBound == Len(ops) < MaxCalls

\* Spec: the program from its start, up to MaxNodes value nodes.
Init ==
    /\ arrays = <<>>
    /\ bufs = <<>>
    /\ nodes = <<>>
    /\ ops = <<>>
    /\ call = NoCall
    /\ stack = <<>>
    /\ os = <<>>
    /\ halted = FALSE

Next ==
    \/ \E x \in Inputs, device \in Device :
          /\ Len(nodes) < MaxNodes
          /\ Construct(x.shape, x.dtype, x.data, device)
    \/ \E l \in Live, r \in Live : NodesBound(l, r, 1) /\ IAdd(l, r)
    \/ \E l \in Live, r \in Live : NodesBound(l, r, 1) /\ IMul(l, r)
    \/ \E l \in Live, r \in Live, device \in Device :
          NodesBound(l, r, 2) /\ Add(l, r, device)
    \/ \E l \in Live, r \in Live, device \in Device :
          NodesBound(l, r, 2) /\ Mul(l, r, device)
    \/ \E l \in Live, r \in Live, o \in Live : NodesBound(l, r, 1) /\ AddTo(l, r, o)
    \/ \E l \in Live, r \in Live, o \in Live : NodesBound(l, r, 1) /\ MulTo(l, r, o)
    \/ \E a \in Live : DumpStart(a)
    \/ DumpStep
    \/ Resume

Spec == Init /\ [][Next]_vars

\* The dump runs to its end once started: the call is synchronous.
FairSpec == Spec /\ WF_vars(DumpStep)

\* KernelSpec: up to MaxCalls completed calls on two Arrays the caller has
\* constructed, the second of the dtype of the first or an int8 one.
KernelInit ==
    /\ \E x \in KernelInputs, y \in KernelInputs :
          /\ y.dtype = x.dtype \/ y.dtype = "kInt8"
          /\ LET S1 == ArrayCtor(EmptyState, x.shape, x.dtype, x.data, 0, "cpu",
                                 XCHAINER_ENABLE_CUDA).S
                 S2 == ArrayCtor(S1, y.shape, y.dtype, y.data, 0, "cpu",
                                 XCHAINER_ENABLE_CUDA).S
             IN  /\ arrays = S2.arrays
                 /\ bufs = S2.bufs
                 /\ nodes = S2.nodes
                 /\ ops = S2.ops
    /\ call = NoCall
    /\ stack = <<>>
    /\ os = <<>>
    /\ halted = FALSE

KernelNext ==
    \/ \E l \in Live, r \in Live : CallsBound /\ IAdd(l, r)
    \/ \E l \in Live, r \in Live : CallsBound /\ IMul(l, r)
    \/ \E l \in Live, r \in Live, device \in Device : CallsBound /\ Add(l, r, device)
    \/ \E l \in Live, r \in Live, device \in Device : CallsBound /\ Mul(l, r, device)
    \/ \E l \in Live, r \in Live, o \in Live : CallsBound /\ AddTo(l, r, o)
    \/ \E l \in Live, r \in Live, o \in Live : CallsBound /\ MulTo(l, r, o)
    \/ Resume

KernelSpec == KernelInit /\ [][KernelNext]_vars

\* ------------------------------------------------------------- properties

InPlace == {"IAdd", "IMul"}
OutOfPlace == {"Add", "Mul"}
WithOutput == {"AddTo", "MulTo"}

\* "add" or "mul": the arithmetic of the call made.
OpName == IF call.op \in {"IAdd", "Add", "AddTo"} THEN "add" ELSE "mul"

\* The call made returned / threw one of the two mismatch errors.
Returned(forms) == call.op \in forms /\ call.status = "ok"
Threw(forms) == call.op \in forms /\ call.status \in {"DtypeMismatch", "ShapeMismatch"}

\* The element type of the call's kernel, and element i of its operands
\* before the call.
KernelT == call.pre.arrays[call.lhs].dtype
Before(a, i) == Load(call.pre.bufs, call.pre.arrays[a].data, GetElementSize(KernelT), i)
Now(a, i) == Load(bufs, arrays[a].data, GetElementSize(KernelT), i)

\* The exact sum or product of the operands' elements i.
Exact(i) ==
    IF OpName = "add"
    THEN ExactAdd(KernelT, Before(call.lhs, i), Before(call.rhs, i))
    ELSE ExactMul(KernelT, Before(call.lhs, i), Before(call.rhs, i))

\* c is the exact result of the operands' elements i.
EqualsExact(c, i) ==
    IF KernelT \in {"kFloat32", "kFloat64"}
    THEN FloatDecode(KernelT, c) =
            IF OpName = "add"
            THEN FloatDecode(KernelT, Before(call.lhs, i)) + FloatDecode(KernelT, Before(call.rhs, i))
            ELSE FloatDecode(KernelT, Before(call.lhs, i)) * FloatDecode(KernelT, Before(call.rhs, i))
    ELSE Widen(KernelT, c) = Exact(i)

\* c is the exact result converted to the element type: nonzero for bool,
\* modulo 2^(8w) for the integers.
EqualsConverted(c, i) ==
    CASE KernelT \in {"kFloat32", "kFloat64"} -> EqualsExact(c, i)
      [] KernelT = "kBool" -> c = <<IF Exact(i) = <<0, 0>> THEN 0 ELSE 1>>
      [] OTHER -> c = SubSeq(Exact(i), 1, GetElementSize(KernelT))

\* Every buffer that existed before the call holds what it held.
BuffersKept(except) ==
    \A d \in 1..Len(call.pre.bufs) :
       d \notin except => d <= Len(bufs) /\ bufs[d] = call.pre.bufs[d]

\* C1 as stated: after c = a.Add(b) or a.Mul(b) on matching operands, c has
\* the shape and dtype of a, every c[i] is the sum (product) a[i] + b[i], and
\* a and b hold what they held.
C1_ExactResult ==
    Returned(OutOfPlace) =>
        /\ arrays[call.ret].shape = call.pre.arrays[call.lhs].shape
        /\ arrays[call.ret].dtype = call.pre.arrays[call.lhs].dtype
        /\ \A i \in Indices(call.pre, call.lhs) : EqualsExact(Now(call.ret, i), i)
        /\ BuffersKept({})

\* C1 amended: c is a new Array with the shape and dtype of a, a and b hold
\* what they held, and where the arithmetic is defined every c[i] is the sum
\* (product) converted to the element type, which wraps modulo 2^(8w) for the
\* integers and is true for any nonzero sum of bools.
C1_ConvertedResult ==
    Returned(OutOfPlace) /\ call.ub = {} =>
        /\ call.ret = Len(call.pre.arrays) + 1
        /\ arrays[call.ret].shape = call.pre.arrays[call.lhs].shape
        /\ arrays[call.ret].dtype = call.pre.arrays[call.lhs].dtype
        /\ \A i \in Indices(call.pre, call.lhs) : EqualsConverted(Now(call.ret, i), i)
        /\ BuffersKept({})

\* An out-of-place call returned a result whose exact value the element type
\* does not hold.
C1_Wrapped ==
    /\ Returned(OutOfPlace)
    /\ call.ub = {}
    /\ call.lhs # call.rhs
    /\ \E i \in Indices(call.pre, call.lhs) : ~EqualsExact(Now(call.ret, i), i)

\* C2 as stated: a.IAdd(b) / a.IMul(b) makes every a[i] the sum (product) of
\* its old value and b[i], leaves b's contents as they were and returns a.
C2_ExactInPlace ==
    Returned(InPlace) =>
        /\ call.ret = call.lhs
        /\ \A i \in Indices(call.pre, call.lhs) : EqualsExact(Now(call.lhs, i), i)
        /\ bufs[arrays[call.rhs].data] = call.pre.bufs[call.pre.arrays[call.rhs].data]

\* C2 amended: the call returns a itself, over the buffer it had; where the
\* arithmetic is defined every a[i] is the sum (product) converted to the
\* element type; b holds what it held unless it shares a's buffer, and so
\* does every other buffer.
C2_ConvertedInPlace ==
    Returned(InPlace) /\ call.ub = {} =>
        /\ call.ret = call.lhs
        /\ Len(arrays) = Len(call.pre.arrays)
        /\ arrays[call.lhs].data = call.pre.arrays[call.lhs].data
        /\ arrays[call.lhs].shape = call.pre.arrays[call.lhs].shape
        /\ arrays[call.lhs].dtype = call.pre.arrays[call.lhs].dtype
        /\ \A i \in Indices(call.pre, call.lhs) : EqualsConverted(Now(call.lhs, i), i)
        /\ BuffersKept({arrays[call.lhs].data})

\* a.IAdd(a) or a.IMul(a) returned and changed the contents of its right
\* operand.
C2_RightOperandChanged ==
    /\ Returned(InPlace)
    /\ call.ub = {}
    /\ call.rhs = call.lhs
    /\ bufs[arrays[call.rhs].data] # call.pre.bufs[call.pre.arrays[call.rhs].data]

\* C3 as stated: an out-of-place Add / Mul on operands that differ in dtype
\* or shape throws without having allocated an output buffer or constructed
\* an output Array at any point of the call.
C3_NoOutputOnMismatch ==
    Threw(OutOfPlace) => call.allocs = 0 /\ call.ctors = 0

\* The operands of the call differ in dtype or shape.
Mismatched ==
    \/ call.pre.arrays[call.lhs].dtype # call.pre.arrays[call.rhs].dtype
    \/ call.pre.arrays[call.lhs].shape # call.pre.arrays[call.rhs].shape

\* C4: a call of the in-place or the caller-supplied-output form on operands
\* that differ in dtype (checked first) or shape throws the matching error,
\* and no buffer, node or op differs from before the call.
C4_CheckedBeforeEffects ==
    call.op \in InPlace \cup WithOutput /\ call.status # "fault" /\ Mismatched =>
        /\ call.status =
              IF call.pre.arrays[call.lhs].dtype # call.pre.arrays[call.rhs].dtype
              THEN "DtypeMismatch"
              ELSE "ShapeMismatch"
        /\ State = call.pre

\* A call with a caller-supplied output threw on operands of one dtype and
\* different shapes.
C4_ShapeMismatchThrown ==
    /\ call.op \in WithOutput
    /\ call.status = "ShapeMismatch"
    /\ call.out # call.lhs

All == InPlace \cup OutOfPlace \cup WithOutput

\* C5: after every call that returns, the output Array's node is one that
\* did not exist before and belongs to no other Array; its producer is a new
\* op tagged "add" or "mul" whose operands are, in order, the nodes the left
\* and right operand had before the call; and every node that existed has
\* the producer it had, also when the output aliases an operand.
C5_OutputNode ==
    Returned(All) =>
        LET n == arrays[call.out].node
        IN  /\ n > Len(call.pre.nodes)
            /\ n <= Len(nodes)
            /\ \A a \in 1..Len(arrays) : a # call.out => arrays[a].node # n
            /\ nodes[n] > Len(call.pre.ops)
            /\ nodes[n] <= Len(ops)
            /\ ops[nodes[n]].name = OpName
            /\ ops[nodes[n]].next_nodes =
                  <<call.pre.arrays[call.lhs].node, call.pre.arrays[call.rhs].node>>
            /\ \A m \in 1..Len(call.pre.nodes) : nodes[m] = call.pre.nodes[m]

\* An in-place call on two distinct leaf operands returned: the output
\* aliases the left operand.
C5_InPlaceOnLeaves ==
    /\ Returned(InPlace)
    /\ call.lhs # call.rhs
    /\ call.pre.nodes[call.pre.arrays[call.lhs].node] = 0
    /\ call.pre.nodes[call.pre.arrays[call.rhs].node] = 0

\* C6: no step changes the producer of a node that exists, set or unset; an
\* Array gets another node only as the output of a call that returns, and
\* that node is a new one.  So a producer is written once, when its node is
\* made, and an Array that is never an output keeps its leaf node.
C6_WriteOnce ==
    [][/\ \A m \in 1..Len(nodes) : m <= Len(nodes') /\ nodes'[m] = nodes[m]
       /\ \A a \in 1..Len(arrays) :
             /\ a <= Len(arrays')
             /\ \/ arrays'[a].node = arrays[a].node
                \/ /\ call'.out = a
                   /\ call'.status = "ok"
                   /\ arrays'[a].node > Len(nodes)]_vars

\* A call with a caller-supplied output returned, and its left operand, not
\* the output, is still a leaf.
C6_OperandStaysLeaf ==
    /\ Returned(WithOutput)
    /\ call.out # call.lhs
    /\ nodes[arrays[call.lhs].node] = 0
    /\ nodes[arrays[call.out].node] # 0

\* C7: every operand of a node's producer is a node made before that node,
\* so no producer path leads from a node back to itself.
C7_OperandsOlder ==
    \A n \in 1..Len(nodes) :
       nodes[n] # 0 =>
          /\ nodes[n] \in 1..Len(ops)
          /\ \A k \in 1..Len(ops[nodes[n]].next_nodes) :
                ops[nodes[n]].next_nodes[k] \in 1..(n - 1)

\* a.IAdd(a) or a.IMul(a) returned on an Array that was an output before.
C7_SelfAliasRepeated ==
    /\ Returned(InPlace)
    /\ call.lhs = call.rhs
    /\ call.pre.nodes[call.pre.arrays[call.lhs].node] # 0

\* C8: while the dump runs and after it, every Array, buffer, node and op is
\* as before it; it writes at most two lines for each of at most
\* 2^(number of nodes) - 1 visits; and once started it comes to its end.
C8_DumpEndsReadOnly ==
    /\ [](call.op = "Dump" =>
            /\ State = call.pre
            /\ Len(os) <= 2 * (Pow2(Len(nodes)) - 1))
    /\ ((stack # <<>>) ~> (stack = <<>>))

\* A dump of a graph two ops deep has come to its end.
C8_DumpDone ==
    /\ call.op = "Dump"
    /\ stack = <<>>
    /\ Len(os) >= 6

\* C9 as stated: every Array's buffer holds at least total_size * element
\* size bytes, and every index a kernel accesses lies inside the buffer it
\* indexes.
C9_KernelInBounds ==
    /\ \A a \in 1..Len(arrays) : Len(bufs[arrays[a].data]) >= total_bytes(arrays[a])
    /\ "bounds" \notin call.ub

====
